---- MODULE Spec2Model ----
(***************************************************************************)
(* Startup orchestration of boringtun-cli (src/boringtun-cli/src/main.rs): *)
(* the socket pair, the optional daemonization, device creation, the       *)
(* privilege drop and the one-byte handshake between the daemonized        *)
(* process and the process the user invoked.                               *)
(*                                                                         *)
(* Processes: "original" is the process the user invoked; "daemon" is the  *)
(* lineage Daemonize::start forks off it (its intermediate child and the   *)
(* detached grandchild are one process here: they run the same code one    *)
(* after the other).  In foreground mode "original" runs the whole of      *)
(* main; in background mode "original" runs the exit action and "daemon"   *)
(* runs the rest of main.                                                  *)
(***************************************************************************)
EXTENDS Integers, Sequences, FiniteSets, TLC

\* The small descriptors given on the command line range up to MaxFd.
MaxFd == 2

\* The values of --tun-fd: negative ones, the small descriptors, and
\* descriptors of two and three digits.
TunFds == (-2 .. MaxFd) \cup {17, 305}

\* Interface names given on the command line.
InterfaceNames == {"wg0", "utun7"}

Procs == {"original", "daemon"}

\* The bytes of the handshake (main.rs:159 and main.rs:145, 153).
SuccessByte == 1
FailureByte == 0

\* Process exit statuses: return from main, exit(1), and a Rust panic.
ExitOk == 0
ExitFailure == 1
ExitPanic == 101

StartedLine == "BoringTun started successfully"
FailedLine == "BoringTun failed to start"

VARIABLES
    args,         \* the parsed Args (main.rs:31-71), immutable
    pc,           \* pc[p]: where process p is in main
    fds,          \* fds[p]: the ends of the socket pair process p holds open
    nonblocking,  \* the ends of the socket pair with O_NONBLOCK set
    queue,        \* datagrams sent on sock1 and not yet received on sock2
    sent,         \* every datagram ever sent on sock1, in order
    b,            \* the exit action's receive buffer, b[0]
    recv,         \* outcome of the exit action's sock2.recv: "none", "ok", "err"
    sendFailed,   \* whether a sock1.send has returned Err
    exited,       \* exited[p]: [code, at] once p has terminated
    stdout,       \* lines printed with println! by the original process
    stderr,       \* lines printed with eprintln! by the original process
    log,          \* tracing events, in order: [proc, level, msg]
    device,       \* outcome of DeviceHandle::new: "none", "ok", "err"
    deviceName,   \* the identifier DeviceHandle::new was called with
    privileges,   \* outcome of drop_privileges: "none", "ok", "err"
    dropCalls,    \* number of calls of drop_privileges
    logFile,      \* whether File::create(&args.log) has created the log file
    forked        \* whether Daemonize::start has forked

vars == <<args, pc, fds, nonblocking, queue, sent, b, recv, sendFailed, exited, stdout, stderr,
          log, device, deviceName, privileges, dropCalls, logFile, forked>>

----------------------------------------------------------------------------
\* Args::tun_name and i32::to_string

Digits == <<"0", "1", "2", "3", "4", "5", "6", "7", "8", "9">>

RECURSIVE to_string(_)
to_string(n) ==
    IF n < 10 THEN Digits[n + 1]
    ELSE to_string(n \div 10) \o Digits[(n % 10) + 1]

\* Mutant of tun_name: descriptor 0 is taken for "no descriptor".
tun_name_PositiveOnly(a) ==
    IF a.tun_fd > 0 THEN to_string(a.tun_fd) ELSE a.interface_name

\* Mutant of tun_name: a control descriptor stands in for the tunnel's.
tun_name_UapiFd(a) ==
    IF a.tun_fd >= 0 THEN to_string(a.tun_fd)
    ELSE IF a.uapi_fd >= 0 THEN to_string(a.uapi_fd)
    ELSE a.interface_name

tun_name(a) ==
    IF a.tun_fd >= 0 THEN to_string(a.tun_fd) ELSE a.interface_name

----------------------------------------------------------------------------
\* Helpers

NotExited == [code |-> -1, at |-> "none"]

Holders(end) == {q \in Procs : end \in fds[q]}

\* exit(code), a panic, or the return of main: the process ends and the
\* kernel closes every descriptor it holds.
Terminate(p, code, at) ==
    /\ pc' = [pc EXCEPT ![p] = "exited"]
    /\ exited' = [exited EXCEPT ![p] = [code |-> code, at |-> at]]
    /\ fds' = [fds EXCEPT ![p] = {}]

Trace(p, level, msg) ==
    log' = Append(log, [proc |-> p, level |-> level, msg |-> msg])

\* Mutant of SendOk: the send completes only while a receive is under way.
SendOk_Rendezvous(p, byte) ==
    /\ "sock1" \in fds[p]
    /\ pc["original"] = "exit_action"
    /\ queue' = Append(queue, byte)
    /\ sent' = Append(sent, byte)

\* sock1.send(&[byte]) returning Ok: a datagram socket delivers to its peer
\* as long as some process still holds the peer open.
SendOk(p, byte) ==
    /\ "sock1" \in fds[p]
    /\ Holders("sock2") # {}
    /\ queue' = Append(queue, byte)
    /\ sent' = Append(sent, byte)

\* sock2.recv(&mut b): a queued datagram is returned at once; with no
\* datagram queued a blocking socket waits and a non-blocking one fails.
RecvReady == queue # <<>> \/ "sock2" \in nonblocking

RecvResult ==
    IF queue # <<>> THEN [ok |-> TRUE, byte |-> Head(queue)]
    ELSE [ok |-> FALSE, byte |-> b]

\* Mutant of StartedSuccessfully: the byte is compared with 0.
StartedSuccessfully_WrongByte(r) == r.ok /\ r.byte = FailureByte

\* Mutant of StartedSuccessfully: the byte received is not looked at.
StartedSuccessfully_AnyByte(r) == r.ok

\* The condition of the exit action (main.rs:109).
StartedSuccessfully(r) == r.ok /\ r.byte = SuccessByte

----------------------------------------------------------------------------
Init ==
    /\ args \in [foreground : BOOLEAN,
                 disable_drop_privileges : BOOLEAN,
                 tun_fd : TunFds,
                 uapi_fd : {-1, MaxFd},
                 interface_name : InterfaceNames]
    /\ pc = [p \in Procs |-> IF p = "original" THEN "socketpair" ELSE "absent"]
    /\ fds = [p \in Procs |-> {}]
    /\ nonblocking = {}
    /\ queue = <<>>
    /\ sent = <<>>
    /\ b = 0
    /\ recv = "none"
    /\ sendFailed = FALSE
    /\ exited = [p \in Procs |-> NotExited]
    /\ stdout = <<>>
    /\ stderr = <<>>
    /\ log = <<>>
    /\ device = "none"
    /\ deviceName = "none"
    /\ privileges = "none"
    /\ dropCalls = 0
    /\ logFile = FALSE
    /\ forked = FALSE

----------------------------------------------------------------------------
\* Mutant of SocketPair: args.foreground is not looked at.
SocketPair_AlwaysBackground ==
    /\ pc["original"] = "socketpair"
    /\ fds' = [fds EXCEPT !["original"] = {"sock1", "sock2"}]
    /\ nonblocking' = {"sock1"}
    /\ pc' = [pc EXCEPT !["original"] = "create_log"]
    /\ UNCHANGED <<args, recv, sendFailed, queue, sent, b, exited, stdout,
                   stderr, log, device, deviceName, privileges, dropCalls,
                   logFile, forked>>

\* main.rs:86-91
SocketPair ==
    /\ pc["original"] = "socketpair"
    /\ fds' = [fds EXCEPT !["original"] = {"sock1", "sock2"}]
    /\ nonblocking' = {"sock1"}
    /\ pc' = [pc EXCEPT !["original"] =
                 IF args.foreground THEN "init_log" ELSE "create_log"]
    /\ UNCHANGED <<args, recv, sendFailed, queue, sent, b, exited, stdout, stderr, log, device,
                   deviceName, privileges, dropCalls, logFile, forked>>

\* main.rs:125-128
InitForegroundLog ==
    /\ pc["original"] = "init_log"
    /\ pc' = [pc EXCEPT !["original"] = "device_new"]
    /\ UNCHANGED <<args, recv, sendFailed, fds, nonblocking, queue, sent, b, exited, stdout,
                   stderr, log, device, deviceName, privileges, dropCalls,
                   logFile, forked>>

\* main.rs:92-103, File::create returning Ok
CreateLogOk ==
    /\ pc["original"] = "create_log"
    /\ logFile' = TRUE
    /\ pc' = [pc EXCEPT !["original"] = "daemonize"]
    /\ UNCHANGED <<args, recv, sendFailed, fds, nonblocking, queue, sent, b, exited, stdout,
                   stderr, log, device, deviceName, privileges, dropCalls,
                   forked>>

\* main.rs:92-93, File::create returning Err: unwrap_or_else panics
CreateLogErr ==
    /\ pc["original"] = "create_log"
    /\ Terminate("original", ExitPanic, "panic_log_file")
    /\ UNCHANGED <<args, recv, sendFailed, nonblocking, queue, sent, b, stdout, stderr, log,
                   device, deviceName, privileges, dropCalls, logFile, forked>>

\* main.rs:105-117, the fork of Daemonize::start succeeding: the child is a
\* copy of the parent, descriptors included; the parent goes on to run the
\* exit action.
DaemonizeFork ==
    /\ pc["original"] = "daemonize"
    /\ forked' = TRUE
    /\ fds' = [fds EXCEPT !["daemon"] = fds["original"]]
    /\ pc' = [pc EXCEPT !["original"] = "exit_action",
                        !["daemon"] = "daemon_setup"]
    /\ UNCHANGED <<args, recv, sendFailed, nonblocking, queue, sent, b, exited, stdout, stderr,
                   log, device, deviceName, privileges, dropCalls, logFile>>

\* Mutant of DaemonizeForkErr: the error is logged and main goes on.
DaemonizeForkErr_Continues ==
    /\ pc["original"] = "daemonize"
    /\ Trace("original", "error", "daemonize")
    /\ pc' = [pc EXCEPT !["original"] = "device_new"]
    /\ UNCHANGED <<args, recv, sendFailed, fds, nonblocking, queue, sent, b, exited,
                   stdout, stderr, device, deviceName, privileges, dropCalls,
                   logFile, forked>>

\* main.rs:117-122, the fork failing: start returns Err in the original
\* process.
DaemonizeForkErr ==
    /\ pc["original"] = "daemonize"
    /\ Trace("original", "error", "daemonize")
    /\ Terminate("original", ExitFailure, "daemonize_err")
    /\ UNCHANGED <<args, recv, sendFailed, nonblocking, queue, sent, b, stdout, stderr, device,
                   deviceName, privileges, dropCalls, logFile, forked>>

\* main.rs:117-118, start returning Ok in the daemon: the Daemonize value,
\* and with it the exit action that owns sock2, is dropped.
DaemonSetupOk ==
    /\ pc["daemon"] = "daemon_setup"
    /\ fds' = [fds EXCEPT !["daemon"] = @ \ {"sock2"}]
    /\ Trace("daemon", "info", StartedLine)
    /\ pc' = [pc EXCEPT !["daemon"] = "device_new"]
    /\ UNCHANGED <<args, recv, sendFailed, nonblocking, queue, sent, b, exited, stdout, stderr,
                   device, deviceName, privileges, dropCalls, logFile, forked>>

\* main.rs:117-122, a step of start after the fork (chdir, setsid, the
\* second fork, the redirection of the standard streams) failing: start
\* returns Err in the daemon.
DaemonSetupErr ==
    /\ pc["daemon"] = "daemon_setup"
    /\ Trace("daemon", "error", "daemonize")
    /\ Terminate("daemon", ExitFailure, "daemonize_err")
    /\ UNCHANGED <<args, recv, sendFailed, nonblocking, queue, sent, b, stdout, stderr, device,
                   deviceName, privileges, dropCalls, logFile, forked>>

\* main.rs:107-115, the exit action, given the result r of sock2.recv
ExitActionWith(r) ==
    /\ pc["original"] = "exit_action"
    /\ b' = r.byte
    /\ queue' = IF r.ok THEN Tail(queue) ELSE queue
    /\ IF StartedSuccessfully(r)
       THEN /\ stdout' = Append(stdout, StartedLine)
            /\ pc' = [pc EXCEPT !["original"] = "exit_action_returned"]
            /\ UNCHANGED <<stderr, exited, fds>>
       ELSE /\ stderr' = Append(stderr, FailedLine)
            /\ Terminate("original", ExitFailure, "exit_action")
            /\ UNCHANGED stdout
    /\ recv' = IF r.ok THEN "ok" ELSE "err"
    /\ UNCHANGED <<args, sendFailed, nonblocking, sent, log, device, deviceName,
                   privileges, dropCalls, logFile, forked>>

ExitAction ==
    /\ RecvReady
    /\ ExitActionWith(RecvResult)

\* The parent branch of Daemonize::start once the exit action has returned:
\* the original process exits with status 0.
DaemonizeParentExit ==
    /\ pc["original"] = "exit_action_returned"
    /\ Terminate("original", ExitOk, "daemonize_parent")
    /\ UNCHANGED <<args, recv, sendFailed, nonblocking, queue, sent, b, stdout, stderr, log,
                   device, deviceName, privileges, dropCalls, logFile, forked>>

----------------------------------------------------------------------------
\* The rest of main, run by process p: the original process in foreground
\* mode, the daemon in background mode.

\* Mutant of DeviceNewOk: disable_drop_privileges is not looked at.
DeviceNewOk_AlwaysDrops(p) ==
    /\ pc[p] = "device_new"
    /\ device' = "ok"
    /\ deviceName' = tun_name(args)
    /\ pc' = [pc EXCEPT ![p] = "drop_privileges"]
    /\ UNCHANGED <<args, recv, sendFailed, fds, nonblocking, queue, sent, b, exited,
                   stdout, stderr, log, privileges, dropCalls, logFile,
                   forked>>

\* main.rs:131-141, DeviceHandle::new returning Ok
DeviceNewOk(p) ==
    /\ pc[p] = "device_new"
    /\ device' = "ok"
    /\ deviceName' = tun_name(args)
    /\ pc' = [pc EXCEPT ![p] = IF ~args.disable_drop_privileges
                                THEN "drop_privileges" ELSE "send_success"]
    /\ UNCHANGED <<args, recv, sendFailed, fds, nonblocking, queue, sent, b, exited, stdout,
                   stderr, log, privileges, dropCalls, logFile, forked>>

\* Mutant of DeviceNewErr: the error is logged and main goes on.
DeviceNewErr_Continues(p) ==
    /\ pc[p] = "device_new"
    /\ device' = "err"
    /\ deviceName' = tun_name(args)
    /\ Trace(p, "error", "Failed to initialize tunnel")
    /\ pc' = [pc EXCEPT ![p] = IF ~args.disable_drop_privileges
                                THEN "drop_privileges" ELSE "send_success"]
    /\ UNCHANGED <<args, recv, sendFailed, fds, nonblocking, queue, sent, b, exited,
                   stdout, stderr, privileges, dropCalls, logFile, forked>>

\* main.rs:140-144, DeviceHandle::new returning Err
DeviceNewErr(p) ==
    /\ pc[p] = "device_new"
    /\ device' = "err"
    /\ deviceName' = tun_name(args)
    /\ Trace(p, "error", "Failed to initialize tunnel")
    /\ pc' = [pc EXCEPT ![p] = "send_failure_device"]
    /\ UNCHANGED <<args, recv, sendFailed, fds, nonblocking, queue, sent, b, exited, stdout,
                   stderr, privileges, dropCalls, logFile, forked>>

\* main.rs:140, DeviceHandle::new not returning
DeviceNewHangs(p) ==
    /\ pc[p] = "device_new"
    /\ deviceName' = tun_name(args)
    /\ pc' = [pc EXCEPT ![p] = "device_hung"]
    /\ UNCHANGED <<args, recv, sendFailed, fds, nonblocking, queue, sent, b, exited, stdout,
                   stderr, log, device, privileges, dropCalls, logFile,
                   forked>>

\* main.rs:145, sock1.send(&[0]) returning Ok
SendFailureDevice(p) ==
    /\ pc[p] = "send_failure_device"
    /\ SendOk(p, FailureByte)
    /\ pc' = [pc EXCEPT ![p] = "exit_device"]
    /\ UNCHANGED <<args, recv, sendFailed, fds, nonblocking, b, exited, stdout, stderr, log,
                   device, deviceName, privileges, dropCalls, logFile, forked>>

\* main.rs:146
ExitDevice(p) ==
    /\ pc[p] = "exit_device"
    /\ Terminate(p, ExitFailure, "device_err")
    /\ UNCHANGED <<args, recv, sendFailed, nonblocking, queue, sent, b, stdout, stderr, log,
                   device, deviceName, privileges, dropCalls, logFile, forked>>

\* main.rs:150-151, drop_privileges returning Ok
DropPrivilegesOk(p) ==
    /\ pc[p] = "drop_privileges"
    /\ dropCalls' = dropCalls + 1
    /\ privileges' = "ok"
    /\ pc' = [pc EXCEPT ![p] = "send_success"]
    /\ UNCHANGED <<args, recv, sendFailed, fds, nonblocking, queue, sent, b, exited, stdout,
                   stderr, log, device, deviceName, logFile, forked>>

\* Mutant of DropPrivilegesErr: the error is logged and main goes on.
DropPrivilegesErr_Ignored(p) ==
    /\ pc[p] = "drop_privileges"
    /\ dropCalls' = dropCalls + 1
    /\ privileges' = "err"
    /\ Trace(p, "error", "Failed to drop privileges")
    /\ pc' = [pc EXCEPT ![p] = "send_success"]
    /\ UNCHANGED <<args, recv, sendFailed, fds, nonblocking, queue, sent, b, exited,
                   stdout, stderr, device, deviceName, logFile, forked>>

\* main.rs:151-152, drop_privileges returning Err
DropPrivilegesErr(p) ==
    /\ pc[p] = "drop_privileges"
    /\ dropCalls' = dropCalls + 1
    /\ privileges' = "err"
    /\ Trace(p, "error", "Failed to drop privileges")
    /\ pc' = [pc EXCEPT ![p] = "send_failure_privileges"]
    /\ UNCHANGED <<args, recv, sendFailed, fds, nonblocking, queue, sent, b, exited, stdout,
                   stderr, device, deviceName, logFile, forked>>

\* main.rs:151, drop_privileges not returning
DropPrivilegesHangs(p) ==
    /\ pc[p] = "drop_privileges"
    /\ dropCalls' = dropCalls + 1
    /\ pc' = [pc EXCEPT ![p] = "privileges_hung"]
    /\ UNCHANGED <<args, recv, sendFailed, fds, nonblocking, queue, sent, b, exited, stdout,
                   stderr, log, device, deviceName, privileges, logFile,
                   forked>>

\* Mutant of SendFailurePrivileges: the byte sent is 1.
SendFailurePrivileges_SendsSuccess(p) ==
    /\ pc[p] = "send_failure_privileges"
    /\ SendOk(p, SuccessByte)
    /\ pc' = [pc EXCEPT ![p] = "exit_privileges"]
    /\ UNCHANGED <<args, recv, sendFailed, fds, nonblocking, b, exited, stdout, stderr,
                   log, device, deviceName, privileges, dropCalls, logFile,
                   forked>>

\* main.rs:153, sock1.send(&[0]) returning Ok
SendFailurePrivileges(p) ==
    /\ pc[p] = "send_failure_privileges"
    /\ SendOk(p, FailureByte)
    /\ pc' = [pc EXCEPT ![p] = "exit_privileges"]
    /\ UNCHANGED <<args, recv, sendFailed, fds, nonblocking, b, exited, stdout, stderr, log,
                   device, deviceName, privileges, dropCalls, logFile, forked>>

\* Mutant of ExitPrivileges: exit(1) is missing and main goes on.
ExitPrivileges_FallsThrough(p) ==
    /\ pc[p] = "exit_privileges"
    /\ pc' = [pc EXCEPT ![p] = "send_success"]
    /\ UNCHANGED <<args, recv, sendFailed, fds, nonblocking, queue, sent, b, exited,
                   stdout, stderr, log, device, deviceName, privileges,
                   dropCalls, logFile, forked>>

\* main.rs:154
ExitPrivileges(p) ==
    /\ pc[p] = "exit_privileges"
    /\ Terminate(p, ExitFailure, "privileges_err")
    /\ UNCHANGED <<args, recv, sendFailed, nonblocking, queue, sent, b, stdout, stderr, log,
                   device, deviceName, privileges, dropCalls, logFile, forked>>

\* Mutant of SendSuccess: the success byte is not sent.
SendSuccess_Skipped(p) ==
    /\ pc[p] = "send_success"
    /\ pc' = [pc EXCEPT ![p] = "drop_sock1"]
    /\ UNCHANGED <<args, recv, sendFailed, fds, nonblocking, queue, sent, b, exited,
                   stdout, stderr, log, device, deviceName, privileges,
                   dropCalls, logFile, forked>>

\* main.rs:159, sock1.send(&[1]) returning Ok
SendSuccess(p) ==
    /\ pc[p] = "send_success"
    /\ SendOk(p, SuccessByte)
    /\ pc' = [pc EXCEPT ![p] = "drop_sock1"]
    /\ UNCHANGED <<args, recv, sendFailed, fds, nonblocking, b, exited, stdout, stderr, log,
                   device, deviceName, privileges, dropCalls, logFile, forked>>

\* main.rs:160
DropSock1(p) ==
    /\ pc[p] = "drop_sock1"
    /\ fds' = [fds EXCEPT ![p] = @ \ {"sock1"}]
    /\ pc' = [pc EXCEPT ![p] = "log_started"]
    /\ UNCHANGED <<args, recv, sendFailed, nonblocking, queue, sent, b, exited, stdout, stderr,
                   log, device, deviceName, privileges, dropCalls, logFile,
                   forked>>

\* main.rs:162-164: the log line, then device_handle.wait() is entered
LogStarted(p) ==
    /\ pc[p] = "log_started"
    /\ Trace(p, "info", StartedLine)
    /\ pc' = [pc EXCEPT ![p] = "wait"]
    /\ UNCHANGED <<args, recv, sendFailed, fds, nonblocking, queue, sent, b, exited, stdout,
                   stderr, device, deviceName, privileges, dropCalls, logFile,
                   forked>>

\* main.rs:164-165, device_handle.wait() returning: main returns
WaitReturns(p) ==
    /\ pc[p] = "wait"
    /\ Terminate(p, ExitOk, "main_return")
    /\ UNCHANGED <<args, recv, sendFailed, nonblocking, queue, sent, b, stdout, stderr, log,
                   device, deviceName, privileges, dropCalls, logFile, forked>>

----------------------------------------------------------------------------
\* Failing channel operations

SendLabels == {"send_failure_device", "send_failure_privileges",
               "send_success"}

\* Mutant of SendErr: the result of send is dropped and main goes on.
SendErr_Ignored(p) ==
    /\ pc[p] \in SendLabels
    /\ sendFailed' = TRUE
    /\ pc' = [pc EXCEPT ![p] =
                 CASE pc[p] = "send_failure_device" -> "exit_device"
                   [] pc[p] = "send_failure_privileges" -> "exit_privileges"
                   [] pc[p] = "send_success" -> "drop_sock1"]
    /\ UNCHANGED <<args, recv, fds, nonblocking, queue, sent, b, exited,
                   stdout, stderr, log, device, deviceName, privileges,
                   dropCalls, logFile, forked>>

\* main.rs:145, 153, 159: sock1.send returning Err, on which unwrap panics
SendErr(p) ==
    /\ pc[p] \in SendLabels
    /\ sendFailed' = TRUE
    /\ Terminate(p, ExitPanic, "panic_send")
    /\ UNCHANGED <<args, recv, nonblocking, queue, sent, b, stdout, stderr, log,
                   device, deviceName, privileges, dropCalls, logFile, forked>>

\* main.rs:109, sock2.recv returning Err
ExitActionRecvErr ==
    ExitActionWith([ok |-> FALSE, byte |-> b])

----------------------------------------------------------------------------
\* What the code of process p does next, device_handle.wait() returning
\* left out.
Startup(p) ==
    \/ DeviceNewOk(p) \/ DeviceNewErr(p) \/ DeviceNewHangs(p)
    \/ SendFailureDevice(p) \/ ExitDevice(p)
    \/ DropPrivilegesOk(p) \/ DropPrivilegesErr(p) \/ DropPrivilegesHangs(p)
    \/ SendFailurePrivileges(p) \/ ExitPrivileges(p)
    \/ SendSuccess(p) \/ DropSock1(p) \/ LogStarted(p)

Supervise ==
    \/ SocketPair \/ InitForegroundLog \/ CreateLogOk \/ CreateLogErr
    \/ DaemonizeFork \/ DaemonizeForkErr
    \/ DaemonSetupOk \/ DaemonSetupErr
    \/ ExitAction \/ DaemonizeParentExit

Next ==
    \/ Supervise
    \/ \E p \in Procs : Startup(p) \/ WaitReturns(p)

\* The channel is reliable: send and recv do not fail.
Spec == Init /\ [][Next]_vars

NextFault ==
    \/ Next
    \/ \E p \in Procs : SendErr(p)
    \/ ExitActionRecvErr

\* The channel operations may fail.
SpecFault == Init /\ [][NextFault]_vars

\* Every process that can take a step of its code eventually does;
\* device_handle.wait() need not return.
Fairness ==
    /\ WF_vars(Supervise)
    /\ \A p \in Procs : WF_vars(Startup(p))

FairSpec == Spec /\ Fairness

----------------------------------------------------------------------------
\* Vocabulary of the properties

Bytes(q) == {q[i] : i \in 1 .. Len(q)}

\* The process that runs device creation, the privilege drop and wait().
Worker == IF args.foreground THEN "original" ELSE "daemon"

DropEnabled == ~args.disable_drop_privileges

HasExited(p) == exited[p] # NotExited

InWait(p) == pc[p] = "wait" \/ exited[p].at = "main_return"

\* Device creation and, when enabled, the privilege drop have returned Ok.
SetupSucceeded == device = "ok" /\ (DropEnabled => privileges = "ok")

\* The exit action has resolved the outcome of the original process.
OutcomeDecided == recv # "none"

----------------------------------------------------------------------------
\* C1: the Success byte is on the channel only once device creation has
\* returned Ok and, when the privilege drop is enabled, drop_privileges has
\* returned Ok; and a process that has entered device_handle.wait() has
\* written the Success byte before.  Holds also when sends may fail.
C1_SuccessAfterSetupBeforeWait ==
    /\ SuccessByte \in Bytes(sent) => SetupSucceeded
    /\ \A p \in Procs : InWait(p) => SuccessByte \in Bytes(sent)

\* A worker with the privilege drop enabled has entered wait().
C1_Witness ==
    /\ DropEnabled
    /\ pc[Worker] = "wait"
    /\ sent = <<SuccessByte>>

\* C2: at most one byte is ever written to the channel, and exactly one has
\* been written once the worker has terminated after a failed device
\* creation or privilege drop, or has entered wait().  (The channel is
\* reliable here; a failing send is the subject of C14.)
C2_ExactlyOneSignal ==
    /\ Len(sent) <= 1
    /\ \/ HasExited(Worker) /\ (device = "err" \/ privileges = "err")
       \/ InWait(Worker)
       => Len(sent) = 1

\* A worker has terminated after a failed device creation.
C2_Witness ==
    /\ exited[Worker].at = "device_err"
    /\ Len(sent) = 1

\* What C3 says of each single state: once device creation and (when enabled) the
\* privilege drop have succeeded, the listener end gets exactly one byte,
\* the Success byte, and the process that owns the listener end (the
\* original process, in both modes) exits with status 0 and no other: in
\* background mode it does exit, having received the byte and printed the
\* success line; in foreground mode it exits only if wait() returns.
C3_Safety ==
    SetupSucceeded =>
        /\ Len(sent) <= 1 /\ Bytes(sent) \subseteq {SuccessByte}
        /\ HasExited("original") => exited["original"].code = ExitOk
        /\ ~args.foreground /\ HasExited("original") =>
              /\ recv = "ok" /\ b = SuccessByte /\ queue = <<>>
              /\ stdout = <<StartedLine>> /\ stderr = <<>>

C4_Safety ==
    device = "err" =>
        /\ SuccessByte \notin Bytes(sent)
        /\ dropCalls = 0 /\ privileges = "none"
        /\ ~InWait(Worker)
        /\ HasExited(Worker) =>
              exited[Worker].code # ExitOk /\ sent = <<FailureByte>>
        /\ HasExited("original") => exited["original"].code # ExitOk

\* C4: once device creation has failed, the worker writes the Failure byte
\* and terminates with a non-zero status; it never writes the Success
\* byte, never calls drop_privileges and never enters wait(); and the
\* original process of a background run exits with a non-zero status:
\* C4_Safety always holds, and the worker and the original process
\* eventually exit, the Failure byte written.
C4_DeviceFailureReported ==
    /\ []C4_Safety
    /\ (device = "err")
          ~> (HasExited(Worker) /\ HasExited("original")
              /\ sent = <<FailureByte>>)

\* Background mode: device creation failed, the daemon and the original
\* process have both exited with status 1.
C4_Witness ==
    /\ ~args.foreground /\ device = "err"
    /\ exited["daemon"].code = ExitFailure
    /\ exited["original"].code = ExitFailure
    /\ sent = <<FailureByte>>

\* What C5 says of each single state: once drop_privileges has failed, the
\* device was created, nothing but the Failure byte has been written, the
\* worker has not entered wait() and has not exited with status 0.
C5_Safety ==
    privileges = "err" =>
        /\ device = "ok" /\ DropEnabled
        /\ SuccessByte \notin Bytes(sent)
        /\ ~InWait(Worker)
        /\ HasExited(Worker) =>
              exited[Worker].code # ExitOk /\ sent = <<FailureByte>>

\* C5: once drop_privileges has failed (after a successful device
\* creation), the worker writes the Failure byte and terminates with a
\* non-zero status; it never writes the Success byte and never enters
\* wait(): C5_Safety always holds, and the worker eventually exits, the
\* Failure byte written.
C5_PrivilegeFailureReported ==
    /\ []C5_Safety
    /\ (privileges = "err") ~> (HasExited(Worker) /\ sent = <<FailureByte>>)

\* The worker has exited with status 1 after drop_privileges failed.
C5_Witness ==
    /\ device = "ok" /\ privileges = "err"
    /\ exited[Worker] = [code |-> ExitFailure, at |-> "privileges_err"]
    /\ sent = <<FailureByte>>

\* C6: when the exit action's receive returns an error, or returns without
\* the byte 1 in the buffer, the original process prints the failure line,
\* exits with status 1 and has not printed the success line.
C6_NoSuccessWithoutSuccessByte ==
    (recv = "err" \/ (recv = "ok" /\ b # SuccessByte)) =>
        /\ exited["original"] = [code |-> ExitFailure, at |-> "exit_action"]
        /\ stderr = <<FailedLine>>
        /\ stdout = <<>>

\* The receive has returned an error and the original process has exited.
C6_Witness ==
    /\ recv = "err"
    /\ exited["original"].code = ExitFailure

\* C7: in background mode the original process prints the success line and
\* exits 0 only when the worker has written the Success byte, after a
\* successful device creation and (when enabled) privilege drop; and the
\* exit action resolves the outcome only after a byte has been written by
\* the worker, unless its receive has failed.
C7_SuccessOnlyAfterSignal ==
    /\ \/ stdout # <<>>
       \/ pc["original"] = "exit_action_returned"
       \/ ~args.foreground /\ exited["original"].code = ExitOk
       => SuccessByte \in Bytes(sent) /\ SetupSucceeded
    /\ OutcomeDecided => sent # <<>> \/ recv = "err"

\* The original process has printed the success line and exited 0.
C7_Witness ==
    /\ stdout = <<StartedLine>>
    /\ exited["original"] = [code |-> ExitOk, at |-> "daemonize_parent"]

\* C8: with the worker stuck in device creation or in the privilege drop,
\* the original process eventually gives up its receive and exits with a
\* non-zero status.
C8_ReceiveIsBounded ==
    (/\ pc["original"] = "exit_action"
     /\ pc["daemon"] \in {"device_hung", "privileges_hung"})
        ~> HasExited("original")

\* C9: when the worker has terminated without writing a byte, the receive
\* of the original process eventually returns and the original process
\* reports the failure.
C9_ReceiveReturnsOnWorkerExit ==
    (/\ pc["original"] = "exit_action"
     /\ HasExited("daemon")
     /\ sent = <<>>)
        ~> (exited["original"].at = "exit_action")

\* C10: from the fork on, the reporter end (sock1) is open in the worker
\* only and the listener end (sock2) in the original process only.
C10_EndsExclusivelyOwned ==
    forked =>
        /\ Holders("sock1") \subseteq {"daemon"}
        /\ Holders("sock2") \subseteq {"original"}


\* C11: in every background run in which the original process gets as far
\* as Daemonize::start, the original process has printed exactly one line
\* by the time it exits, the success line or the failure line, and at no
\* time more than one.
C11_ExactlyOneMessage ==
    /\ Len(stdout) + Len(stderr) <= 1
    /\ exited["original"].at \in
          {"daemonize_err", "exit_action", "daemonize_parent"}
       => Len(stdout) + Len(stderr) = 1

\* The processes that have logged a daemonization error.
DaemonizeErrorLoggedBy ==
    {log[i].proc : i \in {j \in 1 .. Len(log) : log[j].msg = "daemonize"}}

\* C12: a process in which Daemonize::start has returned an error has
\* logged the error and exited with status 1 at once; no byte has been or
\* is ever written to the channel, and device creation and the privilege
\* drop are never attempted.
C12_DaemonizeErrorExitsAtOnce ==
    \A p \in DaemonizeErrorLoggedBy :
        /\ exited[p] = [code |-> ExitFailure, at |-> "daemonize_err"]
        /\ sent = <<>>
        /\ device = "none" /\ deviceName = "none"
        /\ dropCalls = 0 /\ privileges = "none"

\* The fork has failed in the original process, which has exited.
C12_Witness ==
    /\ ~forked
    /\ "original" \in DaemonizeErrorLoggedBy
    /\ exited["original"].code = ExitFailure

\* C13: drop_privileges is called at most once, only when the privilege
\* drop is enabled, only after device creation has succeeded and with no
\* byte written yet; the Success byte of a run with the drop enabled is
\* written after the call has returned Ok; with the drop disabled the call
\* is never made and the step after a successful device creation is the
\* send of the Success byte.
C13_PrivilegeDropPlacement ==
    /\ dropCalls <= 1
    /\ dropCalls > 0 => DropEnabled /\ device = "ok"
    /\ \A p \in Procs : pc[p] = "drop_privileges" =>
          dropCalls = 0 /\ sent = <<>> /\ device = "ok"
    /\ DropEnabled /\ SuccessByte \in Bytes(sent) =>
          dropCalls = 1 /\ privileges = "ok"
    /\ ~DropEnabled =>
          /\ dropCalls = 0 /\ privileges = "none"
          /\ device = "ok" =>
                pc[Worker] \in {"send_success", "drop_sock1", "log_started",
                                "wait", "exited"}
                /\ (pc[Worker] = "send_success" => sent = <<>>)

\* The drop is enabled, was called once, and the Success byte is written.
C13_Witness ==
    /\ DropEnabled
    /\ dropCalls = 1
    /\ sent = <<SuccessByte>>


\* C14: once a send of the signal byte has returned an error, the worker
\* has terminated with a non-zero status, the byte was not written, and
\* the worker does not enter wait().
C14_FailedSendFailsStartup ==
    sendFailed =>
        /\ exited[Worker] = [code |-> ExitPanic, at |-> "panic_send"]
        /\ exited[Worker].code # ExitOk
        /\ sent = <<>>
        /\ ~InWait(Worker)

\* The send of the Success byte has failed after a successful setup.
C14_Witness ==
    /\ sendFailed
    /\ SetupSucceeded
    /\ HasExited(Worker)

\* C15: a foreground run never creates the log file and never forks; a
\* fork happens only with the log file created before; and a run whose
\* log file could not be created never forks.
C15_LogFileBeforeFork ==
    /\ args.foreground => ~logFile /\ ~forked
    /\ forked => logFile
    /\ pc["original"] = "daemonize" => logFile
    /\ exited["original"].at = "panic_log_file" => ~logFile /\ ~forked

\* A background run has forked, the log file created.
C15_Witness ==
    /\ ~args.foreground
    /\ forked
    /\ logFile

\* The processes that have logged the startup-success message.
StartedLoggedBy ==
    {log[i].proc : i \in {j \in 1 .. Len(log) : log[j].msg = StartedLine}}

\* C16: the worker has logged the startup-success message only with the
\* Success byte written and its reporter end released, and in a run in
\* which device creation or the privilege drop has failed the worker has
\* not logged it.
C16_StartedLoggedAfterSignal ==
    Worker \in StartedLoggedBy =>
        /\ sent = <<SuccessByte>>
        /\ "sock1" \notin fds[Worker]
        /\ device = "ok" /\ privileges # "err"

\* C17: once device creation and (when enabled) the privilege drop have
\* succeeded, the worker eventually enters wait(), whether or not anything
\* is ever received on the listener end.
C17_SendDoesNotBlock ==
    SetupSucceeded ~> InWait(Worker)

\* A foreground worker is in wait() with the byte still queued, unread.
C17_Witness ==
    /\ args.foreground
    /\ pc[Worker] = "wait"
    /\ queue = <<SuccessByte>>
    /\ recv = "none"


\* The decimal text of the descriptors, written out.
DecimalTexts ==
    (0 :> "0") @@ (1 :> "1") @@ (2 :> "2") @@ (3 :> "3") @@ (4 :> "4")
    @@ (5 :> "5") @@ (6 :> "6") @@ (7 :> "7") @@ (8 :> "8") @@ (9 :> "9")
    @@ (17 :> "17") @@ (305 :> "305")

\* C18: the identifier DeviceHandle::new is called with is the decimal text
\* of tun_fd when tun_fd >= 0, whatever the interface name, and the
\* interface name when tun_fd is negative.
C18_TunNameChoice ==
    deviceName # "none" =>
        deviceName = IF args.tun_fd >= 0 THEN DecimalTexts[args.tun_fd]
                     ELSE args.interface_name

\* The device factory has been called with a descriptor of several digits.
C18_Witness ==
    /\ args.tun_fd = 305
    /\ device # "none"
    /\ deviceName = "305"

\* C19 as claimed: with a control descriptor and no tunnel descriptor given,
\* the device factory is not asked to resolve the interface name.
C19_ControlFdSkipsResolution ==
    args.uapi_fd >= 0 /\ args.tun_fd < 0 /\ deviceName # "none" =>
        deviceName # args.interface_name

\* C19, amended: with a control descriptor and no tunnel descriptor given,
\* the device factory is still called with the interface name; only a
\* tunnel descriptor replaces it.
C19_ControlFdKeepsName ==
    args.uapi_fd >= 0 /\ args.tun_fd < 0 /\ deviceName # "none" =>
        deviceName = args.interface_name

\* A device has been created by name with a control descriptor given.
C19_Witness ==
    /\ args.uapi_fd >= 0 /\ args.tun_fd < 0
    /\ device = "ok"
    /\ deviceName = args.interface_name

====
